---- MODULE Spec2Model ----
(***************************************************************************)
(* Model of the Logbuch desktop shell, src-tauri/src/lib.rs:               *)
(*   - the save_file command                          (SpecSave)           *)
(*   - the setup closure of run(): WebView2 cache clear and the issue of   *)
(*     the eviction script                            (SpecCache)          *)
(*   - the eviction script itself, run in the webview (SpecEvict)          *)
(*   - the kill_bridge command and the RunEvent::Exit handler (SpecLife)   *)
(* The four parts share no state in the program (different filesystem      *)
(* subtrees, the webview's storage, the process table), so each is checked *)
(* under a specification of its own; the variables of the other parts are  *)
(* held fixed there.                                                       *)
(***************************************************************************)
EXTENDS Integers, Sequences, FiniteSets, TLC

VARIABLES
    \* ---- save_file ----
    sfs,        \* the filesystem save_file writes to: path -> entry
    call,       \* arguments of the last save_file call
    prev,       \* the filesystem before the last save_file call
    ret,        \* what the last save_file call returned
    \* ---- the build target ----
    windows,    \* cfg(target_os = "windows")
    \* ---- setup closure (cache clear, eval) ----
    tree,       \* the app local data directory: node -> "none" | "dir" | "file"
    spc,        \* position of the setup closure
    ent,        \* index of the for loop over ["Cache", "Code Cache"]
    dataDir,    \* result of app.path().app_local_data_dir() in this run
    checked,    \* targets whose .exists() was evaluated in this run
    attempted,  \* targets remove_dir_all was called on in this run
    failed,     \* targets whose remove_dir_all returned Err in this run
    mainWindow, \* whether get_webview_window("main") is Some
    evalIssued, \* whether window.eval(script) was called in this run
    setupRet,   \* what the setup closure returned
    launch,     \* number of the current launch of the application
    last,       \* the previous launch: the tree it left, what its clear did,
                \* whether the webview was quiet after it
    quiet,      \* no cache activity since this launch's clear
    \* ---- eviction script ----
    hasSW,      \* 'serviceWorker' in navigator
    hasCaches,  \* 'caches' in window
    regs,       \* service worker registrations of the page
    buckets,    \* CacheStorage bucket names of the page
    tc,         \* sessionStorage.__tc is set
    epc,        \* position of the running script instance
    c,          \* the script's variable c
    r,          \* the script's variable r (registrations snapshot)
    k,          \* the script's variable k (cache keys snapshot)
    i,          \* the script's loop variable i
    reloads,    \* location.reload() calls in this session
    run0,       \* page storage when the current/last script instance started
    outcome,    \* how the last script instance ended
    \* ---- kill_bridge, run loop ----
    lpc,        \* position of app.run: "loop" | "exited"
    bridge,     \* nmea-bridge.exe: "running" | "stopped"
    calls,      \* kill_bridge invocations
    cmdKills,   \* taskkill attempts made by the kill_bridge command
    hookKills,  \* taskkill attempts made by the run-loop callback
    spawned,    \* processes started by this program
    lastKill,   \* result of the last Command::output()
    lastEvent,  \* last RunEvent delivered to the callback
    cmdRet      \* what the last kill_bridge call returned to its caller

saveVars == <<sfs, call, prev, ret>>
cacheVars == <<tree, spc, ent, dataDir, checked, attempted, failed,
               mainWindow, evalIssued, setupRet, launch, last, quiet>>
evictVars == <<hasSW, hasCaches, regs, buckets, tc, epc, c, r, k, i,
               reloads, run0, outcome>>
lifeVars == <<lpc, bridge, calls, cmdKills, hookKills, spawned, lastKill, lastEvent, cmdRet>>
vars == <<windows, saveVars, cacheVars, evictVars, lifeVars>>

----------------------------------------------------------------------------
(* save_file, lines 3-7                                                    *)

MaxLen == 2
\* The device holds at most DiskSize bytes of file content.
DiskSize == MaxLen
Byte == {0, 1}
Buffers == UNION {[1..n -> Byte] : n \in 0..MaxLen}

NoEntry == [kind |-> "none", data |-> <<>>, readonly |-> FALSE]
DirEntry(ro) == [kind |-> "dir", data |-> <<>>, readonly |-> ro]
FileEntry(d, ro) == [kind |-> "file", data |-> d, readonly |-> ro]

DocsDir == <<"docs">>
GoneDir == <<"gone">>
Other == <<"docs", "other">>
SavePaths == {DocsDir, <<"docs", "a">>, Other, GoneDir, <<"gone", "a">>}
\* The paths the save dialog hands to save_file in this model.
ChosenPaths == SavePaths \ {Other}
Parent(p) == SubSeq(p, 1, Len(p) - 1)

RECURSIVE Used(_, _)
Used(fs, P) ==
    IF P = {} THEN 0
    ELSE LET p == CHOOSE q \in P : TRUE IN Len(fs[p].data) + Used(fs, P \ {p})
Free(fs) == DiskSize - Used(fs, SavePaths)

\* OpenOptions::new().write(true).create(true).truncate(true).open(path),
\* the first half of std::fs::write: the io::Error kind, or "Ok".
OpenForWrite(fs, p) ==
    IF Len(p) > 1 /\ fs[Parent(p)].kind # "dir" THEN "NotFound"
    ELSE IF fs[p].kind = "dir" THEN "IsADirectory"
    ELSE IF fs[p].kind = "file" /\ fs[p].readonly THEN "PermissionDenied"
    ELSE IF fs[p].kind = "none" /\ Len(p) > 1 /\ fs[Parent(p)].readonly
         THEN "PermissionDenied"
    ELSE "Ok"

\* The file after a successful open (created, or truncated to length 0) and
\* a write_all of which the device took the first n bytes.
WrittenNoTruncate(old, d, n) ==
    FileEntry(SubSeq(d, 1, n) \o SubSeq(old.data, n + 1, Len(old.data)), FALSE)
Written(old, d, n) == FileEntry(SubSeq(d, 1, n), FALSE)

\* .map_err(|e| e.to_string()): Result<(), io::Error> -> Result<(), String>
MapErr(res) == IF res = "Ok" THEN <<"Ok">> ELSE <<"Err", res>>

\* std::fs::write(&path, &data): the filesystem after it and its result.
\* The bytes the device has room for, once the old content is truncated,
\* are written; write_all fails on the first byte it has no room for.
FsWriteCreatesOnError(fs, p, d) ==
    LET room == Free(fs) + Len(fs[p].data)
        n == IF room < Len(d) THEN room ELSE Len(d) IN
    IF OpenForWrite(fs, p) # "Ok"
    THEN [fs |-> IF fs[p].kind = "none"
                 THEN [fs EXCEPT ![p] = FileEntry(<<>>, FALSE)] ELSE fs,
          res |-> OpenForWrite(fs, p)]
    ELSE [fs |-> [fs EXCEPT ![p] = Written(fs[p], d, n)],
          res |-> IF n < Len(d) THEN "StorageFull" ELSE "Ok"]
FsWrite(fs, p, d) ==
    LET room == Free(fs) + Len(fs[p].data)
        n == IF room < Len(d) THEN room ELSE Len(d) IN
    IF OpenForWrite(fs, p) # "Ok"
    THEN [fs |-> fs, res |-> OpenForWrite(fs, p)]
    ELSE [fs |-> [fs EXCEPT ![p] = Written(fs[p], d, n)],
          res |-> IF n < Len(d) THEN "StorageFull" ELSE "Ok"]

save_file(p, d) ==
    LET w == FsWrite(sfs, p, d) IN
    /\ sfs' = w.fs
    /\ ret' = MapErr(w.res)
    /\ call' = [path |-> p, data |-> d]
    /\ prev' = sfs

NoCall == [path |-> <<>>, data |-> <<>>]

FileOrNone == {NoEntry} \cup {FileEntry(d, ro) : d \in Buffers, ro \in BOOLEAN}

SaveInit ==
    /\ \E a \in FileOrNone, b \in {NoEntry, FileEntry(<<1>>, FALSE)}, ro \in BOOLEAN :
          sfs = [p \in SavePaths |->
                   IF p = DocsDir THEN DirEntry(ro)
                   ELSE IF p = <<"docs", "a">> THEN a
                   ELSE IF p = Other THEN b
                   ELSE NoEntry]
    /\ Free(sfs) >= 0
    /\ call = NoCall
    /\ prev = sfs
    /\ ret = <<"None">>

----------------------------------------------------------------------------
(* run(): the setup closure, lines 30-80                                   *)

MaxLaunches == 2

\* for entry in &["Cache", "Code Cache"]
Entries == <<"Cache", "Code Cache">>

\* data_dir.join(entry)
PathDirect(e) == <<Entries[e]>>
\* data_dir.join("EBWebView").join("Default").join(entry)
PathEbwvWholeProfile(e) == <<"EBWebView">>
PathEbwv(e) == <<"EBWebView", "Default", Entries[e]>>

\* The four directories the clear is for.
Targets ==
    { <<"Cache">>, <<"Code Cache">>,
      <<"EBWebView", "Default", "Cache">>,
      <<"EBWebView", "Default", "Code Cache">> }

\* The entries the data directory may hold, as paths relative to it.
Nodes ==
    { <<"Cache">>, <<"Cache", "data_0">>, <<"Code Cache">>,
      <<"IndexedDB">>, <<"Local Storage">>, <<"Service Worker">>,
      <<"EBWebView">>, <<"EBWebView", "Default">>,
      <<"EBWebView", "Default", "Cache">>,
      <<"EBWebView", "Default", "Code Cache">>,
      <<"EBWebView", "Default", "IndexedDB">> }

IsPrefix(p, n) == Len(p) <= Len(n) /\ SubSeq(n, 1, Len(p)) = p
Subtree(p) == {n \in Nodes : IsPrefix(p, n)}
TargetSubtrees == UNION {Subtree(t) : t \in Targets}

WellFormed(t) ==
    /\ \A n \in Nodes : Len(n) > 1 /\ t[n] # "none" => t[Parent(n)] = "dir"
    /\ \A n \in Nodes : t[n] = "file" => n \in {<<"Cache", "data_0">>, <<"Code Cache">>}
    /\ t[<<"Cache", "data_0">>] # "dir"

\* path.exists()
Exists(t, p) == t[p] # "none"

Removed(t, R) == [n \in Nodes |-> IF n \in R THEN "none" ELSE t[n]]

\* What std::fs::remove_dir_all(p) may do to the tree t and return. It fails
\* on a path that is no directory; on a directory it removes the children
\* first and the directory last, and an error (a locked file, a denied
\* access) leaves the directory and whatever it had not yet removed.
RemoveDirContents(t, p) ==
    {[tree |-> Removed(t, Subtree(p) \ {p}), res |-> "Ok"]}
RemoveDirAll(t, p) ==
    IF t[p] # "dir" THEN {[tree |-> t, res |-> "Err"]}
    ELSE {[tree |-> Removed(t, Subtree(p)), res |-> "Ok"]}
         \cup {[tree |-> Removed(t, R), res |-> "Err"] :
                 R \in {S \in SUBSET (Subtree(p) \ {p}) :
                          \A n \in S : Subtree(n) \subseteq S}}

\* let _ = std::fs::remove_dir_all(..): the Result is dropped.
PropagateRemove(res) == res
DiscardRemove(res) == "Ok"

\* if path.exists() { let _ = remove_dir_all(&path); } and the position after it
ClearTarget(p, next, nextEnt) ==
    /\ checked' = checked \cup {p}
    /\ IF Exists(tree, p)
       THEN \E o \in RemoveDirAll(tree, p) :
              /\ tree' = o.tree
              /\ attempted' = attempted \cup {p}
              /\ failed' = IF o.res = "Err" THEN failed \cup {p} ELSE failed
              /\ IF DiscardRemove(o.res) = "Ok"
                 THEN spc' = next /\ ent' = nextEnt /\ setupRet' = setupRet
                 ELSE spc' = "aborted" /\ ent' = ent /\ setupRet' = "Err"
       ELSE /\ UNCHANGED <<tree, attempted, failed, setupRet>>
            /\ spc' = next /\ ent' = nextEnt
    /\ UNCHANGED <<dataDir, mainWindow, evalIssued, launch, last, quiet>>

\* #[cfg(target_os = "windows")] if let Ok(data_dir) = app.path().app_local_data_dir()
ResolveDataDir ==
    /\ spc = "start"
    /\ IF windows
       THEN \E d \in {"Ok", "Err"} :
              /\ dataDir' = d
              /\ spc' = IF d = "Ok" THEN "direct" ELSE "eval"
       ELSE dataDir' = dataDir /\ spc' = "eval"
    /\ ent' = 1
    /\ UNCHANGED <<tree, checked, attempted, failed, mainWindow, evalIssued,
                   setupRet, launch, last, quiet>>

ClearDirect ==
    /\ spc = "direct"
    /\ ClearTarget(PathDirect(ent), "ebwv", ent)

ClearEbwv ==
    /\ spc = "ebwv"
    /\ ClearTarget(PathEbwv(ent), IF ent < Len(Entries) THEN "direct" ELSE "eval",
                   IF ent < Len(Entries) THEN ent + 1 ELSE ent)

\* if let Some(window) = app.get_webview_window("main") { let _ = window.eval(..); }
\* Ok(())
IssueEval ==
    /\ spc = "eval"
    /\ evalIssued' = mainWindow
    /\ setupRet' = "Ok"
    /\ spc' = "running"
    /\ UNCHANGED <<tree, ent, dataDir, checked, attempted, failed, mainWindow,
                   launch, last, quiet>>

\* The webview, while the application runs, writes its HTTP and code caches.
WebviewCacheActivity ==
    /\ spc = "running"
    /\ \E t \in Targets :
         /\ tree[t] = "none"
         /\ Len(t) > 1 => tree[Parent(t)] = "dir"
         /\ tree' = [tree EXCEPT ![t] = "dir"]
    /\ quiet' = FALSE
    /\ UNCHANGED <<spc, ent, dataDir, checked, attempted, failed, mainWindow,
                   evalIssued, setupRet, launch, last>>

\* The application exits and is started again: run() from its first line.
Relaunch ==
    /\ spc = "running"
    /\ launch < MaxLaunches
    /\ launch' = launch + 1
    /\ last' = [tree |-> tree,
                resolved |-> windows /\ dataDir = "Ok",
                attempted |-> attempted,
                failed |-> failed,
                quiet |-> quiet]
    /\ spc' = "start"
    /\ ent' = 1
    /\ dataDir' = "None"
    /\ checked' = {}
    /\ attempted' = {}
    /\ failed' = {}
    /\ evalIssued' = FALSE
    /\ setupRet' = "None"
    /\ quiet' = TRUE
    /\ UNCHANGED <<tree, mainWindow>>

\* The webview creates its storage directories together.
StorageTogether(t) ==
    /\ t[<<"Local Storage">>] = t[<<"IndexedDB">>]
    /\ t[<<"Service Worker">>] = t[<<"IndexedDB">>]

CacheInit ==
    /\ tree \in {t \in [Nodes -> {"none", "dir", "file"}] :
                   WellFormed(t) /\ StorageTogether(t)}
    /\ mainWindow \in BOOLEAN
    /\ spc = "start"
    /\ ent = 1
    /\ dataDir = "None"
    /\ checked = {}
    /\ attempted = {}
    /\ failed = {}
    /\ evalIssued = FALSE
    /\ setupRet = "None"
    /\ launch = 1
    /\ last = [tree |-> tree, resolved |-> FALSE, attempted |-> {}, failed |-> {},
               quiet |-> FALSE]
    /\ quiet = TRUE


----------------------------------------------------------------------------
(* The script of lines 62-77, evaluated in the webview                     *)

Tiles == "protomaps-tiles-precache"
BucketNames == {Tiles, "workbox-precache-v2", "workbox-runtime"}
Scopes == {"/", "/app/"}

\* The arrays getRegistrations() and caches.keys() may resolve to.
Orderings(S) ==
    {s \in [1..Cardinality(S) -> S] : \A x \in S : \E j \in 1..Cardinality(S) : s[j] = x}

\* k[i]!=='protomaps-tiles-precache'
ShouldDeleteAny(name) == TRUE
ShouldDelete(name) == name # Tiles

\* c&&!sessionStorage.__tc
ReloadIfChanged(cc, flag) == cc
ReloadIfUnflagged(cc, flag) == ~flag
ReloadCond(cc, flag) == cc /\ ~flag

\* window.eval(..): (async()=>{ var c=false; ...
Invoke ==
    /\ epc = "idle"
    /\ epc' = "sw"
    /\ c' = FALSE
    /\ r' = <<>>
    /\ k' = <<>>
    /\ i' = 1
    /\ run0' = [regs |-> regs, buckets |-> buckets, tc |-> tc, reloads |-> reloads]
    /\ outcome' = "running"
    /\ UNCHANGED <<hasSW, hasCaches, regs, buckets, tc, reloads>>

\* if('serviceWorker'in navigator){ var r=await navigator.serviceWorker.getRegistrations();
GetRegistrations ==
    /\ epc = "sw"
    /\ IF hasSW
       THEN /\ r' \in Orderings(regs)
            /\ i' = 1
            /\ epc' = "unreg"
       ELSE /\ epc' = "caches"
            /\ UNCHANGED <<r, i>>
    /\ UNCHANGED <<hasSW, hasCaches, regs, buckets, tc, c, k, reloads, run0, outcome>>

\* for(var i=0;i<r.length;i++){await r[i].unregister();c=true;}
Unregister ==
    /\ epc = "unreg"
    /\ i <= Len(r)
    /\ regs' = regs \ {r[i]}
    /\ c' = TRUE
    /\ i' = i + 1
    /\ UNCHANGED <<hasSW, hasCaches, buckets, tc, epc, r, k, reloads, run0, outcome>>

UnregisterDone ==
    /\ epc = "unreg"
    /\ i > Len(r)
    /\ epc' = "caches"
    /\ UNCHANGED <<hasSW, hasCaches, regs, buckets, tc, c, r, k, i, reloads, run0, outcome>>

\* if('caches'in window){ var k=await caches.keys();
CachesKeys ==
    /\ epc = "caches"
    /\ IF hasCaches
       THEN /\ k' \in Orderings(buckets)
            /\ i' = 1
            /\ epc' = "delete"
       ELSE /\ epc' = "final"
            /\ UNCHANGED <<k, i>>
    /\ UNCHANGED <<hasSW, hasCaches, regs, buckets, tc, c, r, reloads, run0, outcome>>

\* for(var i=0;i<k.length;i++){ if(k[i]!==..){await caches.delete(k[i]);c=true;} }
DeleteKey ==
    /\ epc = "delete"
    /\ i <= Len(k)
    /\ IF ShouldDelete(k[i])
       THEN buckets' = buckets \ {k[i]} /\ c' = TRUE
       ELSE UNCHANGED <<buckets, c>>
    /\ i' = i + 1
    /\ UNCHANGED <<hasSW, hasCaches, regs, tc, epc, r, k, reloads, run0, outcome>>

DeleteDone ==
    /\ epc = "delete"
    /\ i > Len(k)
    /\ epc' = "final"
    /\ UNCHANGED <<hasSW, hasCaches, regs, buckets, tc, c, r, k, i, reloads, run0, outcome>>

\* if(c&&!sessionStorage.__tc){sessionStorage.__tc='1';location.reload();}
Final ==
    /\ epc = "final"
    /\ IF ReloadCond(c, tc)
       THEN /\ tc' = TRUE
            /\ reloads' = reloads + 1
            /\ outcome' = "reloaded"
       ELSE /\ UNCHANGED <<tc, reloads>>
            /\ outcome' = "done"
    /\ epc' = "idle"
    /\ UNCHANGED <<hasSW, hasCaches, regs, buckets, c, r, k, i, run0>>

\* An awaited promise rejects: the async function ends there, and the
\* rejection goes nowhere.
ScriptThrows ==
    /\ \/ epc = "sw" /\ hasSW
       \/ epc = "unreg" /\ i <= Len(r)
       \/ epc = "caches" /\ hasCaches
       \/ epc = "delete" /\ i <= Len(k) /\ ShouldDelete(k[i])
    /\ epc' = "idle"
    /\ outcome' = "threw"
    /\ UNCHANGED <<hasSW, hasCaches, regs, buckets, tc, c, r, k, i, reloads, run0>>

\* The page (not this repository), between two runs of the script, registers
\* a worker or opens a cache bucket.
PageActivity ==
    /\ epc = "idle"
    /\ \/ /\ hasSW
          /\ \E s \in Scopes \ regs : regs' = regs \cup {s}
          /\ UNCHANGED buckets
       \/ /\ hasCaches
          /\ \E b \in BucketNames \ buckets : buckets' = buckets \cup {b}
          /\ UNCHANGED regs
    /\ UNCHANGED <<hasSW, hasCaches, tc, epc, c, r, k, i, reloads, run0, outcome>>

\* The webview is closed and opened again: sessionStorage starts empty.
NewSession ==
    /\ tc' = FALSE
    /\ reloads' = 0
    /\ epc' = "idle"
    /\ outcome' = "none"
    /\ UNCHANGED <<hasSW, hasCaches, regs, buckets, c, r, k, i, run0>>

EvictInit ==
    /\ hasSW \in BOOLEAN
    /\ hasCaches \in BOOLEAN
    /\ regs \in (IF hasSW THEN SUBSET Scopes ELSE {{}})
    /\ buckets \in (IF hasCaches THEN SUBSET BucketNames ELSE {{}})
    /\ tc = FALSE
    /\ epc = "idle"
    /\ c = FALSE
    /\ r = <<>>
    /\ k = <<>>
    /\ i = 1
    /\ reloads = 0
    /\ run0 = [regs |-> regs, buckets |-> buckets, tc |-> FALSE, reloads |-> 0]
    /\ outcome = "none"

----------------------------------------------------------------------------
(* kill_bridge (lines 12-19) and the callback of app.run (lines 84-95)     *)

MaxCalls == 2

RunEvents == {"Ready", "WindowEvent", "MainEventsCleared", "ExitRequested", "Exit"}

\* std::process::Command::new("taskkill").args(["/F","/IM","nmea-bridge.exe"]).output()
\* "SpawnErr": taskkill could not be started; "Killed": it ended the process;
\* "NotRunning": no such process; "Denied": the process is running and stays so.
TaskkillResults(b) ==
    {"SpawnErr"} \cup (IF b = "running" THEN {"Killed", "Denied"} ELSE {"NotRunning"})

\* let _ = ...output(): the Result is dropped.
UnwrapKill(res) == IF res = "SpawnErr" THEN "panic" ELSE "unit"
DiscardKill(res) == "unit"

\* if let tauri::RunEvent::Exit = event
KillsOnExitRequested(e) == e \in {"Exit", "ExitRequested"}
KillsOn(e) == e = "Exit"

Taskkill(res) ==
    /\ lastKill' = res
    /\ spawned' = IF res = "SpawnErr" THEN spawned ELSE spawned + 1
    /\ bridge' = IF res = "Killed" THEN "stopped" ELSE bridge

\* #[tauri::command] fn kill_bridge()
kill_bridge ==
    /\ lpc = "loop"
    /\ calls < MaxCalls
    /\ calls' = calls + 1
    /\ IF windows
       THEN \E res \in TaskkillResults(bridge) :
              /\ Taskkill(res)
              /\ cmdKills' = cmdKills + 1
              /\ cmdRet' = DiscardKill(res)
       ELSE /\ UNCHANGED <<bridge, spawned, lastKill, cmdKills>>
            /\ cmdRet' = "unit"
    /\ UNCHANGED <<lpc, hookKills, lastEvent>>

\* app.run(|_app_handle, event| { ... })
RunCallback ==
    /\ lpc = "loop"
    /\ \E e \in RunEvents :
         /\ lastEvent' = e
         /\ IF KillsOn(e) /\ windows
            THEN \E res \in TaskkillResults(bridge) :
                   /\ Taskkill(res)
                   /\ hookKills' = hookKills + 1
            ELSE UNCHANGED <<bridge, spawned, lastKill, hookKills>>
         /\ lpc' = IF e = "Exit" THEN "exited" ELSE "loop"
    /\ UNCHANGED <<calls, cmdKills, cmdRet>>

\* The web UI starts the sidecar (tauri_plugin_shell), or the sidecar ends by itself.
BridgeChanges ==
    /\ lpc = "loop"
    /\ bridge' = IF bridge = "running" THEN "stopped" ELSE "running"
    /\ UNCHANGED <<lpc, calls, cmdKills, hookKills, spawned, lastKill, lastEvent, cmdRet>>

LifeInit ==
    /\ lpc = "loop"
    /\ bridge \in {"running", "stopped"}
    /\ calls = 0
    /\ cmdKills = 0
    /\ hookKills = 0
    /\ spawned = 0
    /\ lastKill = "None"
    /\ lastEvent = "None"
    /\ cmdRet = "None"

----------------------------------------------------------------------------
(* Specifications                                                          *)

SaveIdle ==
    /\ sfs = [p \in SavePaths |-> NoEntry]
    /\ call = NoCall
    /\ prev = sfs
    /\ ret = <<"None">>

CacheIdle ==
    /\ tree = [n \in Nodes |-> "none"]
    /\ mainWindow = TRUE
    /\ spc = "start"
    /\ ent = 1
    /\ dataDir = "None"
    /\ checked = {}
    /\ attempted = {}
    /\ failed = {}
    /\ evalIssued = FALSE
    /\ setupRet = "None"
    /\ launch = 1
    /\ last = [tree |-> tree, resolved |-> FALSE, attempted |-> {}, failed |-> {},
               quiet |-> FALSE]
    /\ quiet = TRUE

EvictIdle ==
    /\ hasSW = TRUE
    /\ hasCaches = TRUE
    /\ regs = {}
    /\ buckets = {}
    /\ tc = FALSE
    /\ epc = "idle"
    /\ c = FALSE
    /\ r = <<>>
    /\ k = <<>>
    /\ i = 1
    /\ reloads = 0
    /\ run0 = [regs |-> {}, buckets |-> {}, tc |-> FALSE, reloads |-> 0]
    /\ outcome = "none"

LifeIdle ==
    /\ lpc = "loop"
    /\ bridge = "stopped"
    /\ calls = 0
    /\ cmdKills = 0
    /\ hookKills = 0
    /\ spawned = 0
    /\ lastKill = "None"
    /\ lastEvent = "None"
    /\ cmdRet = "None"

InitSave == windows \in BOOLEAN /\ SaveInit /\ CacheIdle /\ EvictIdle /\ LifeIdle
NotSave == <<windows, cacheVars, evictVars, lifeVars>>
NextSave ==
    \E p \in ChosenPaths, d \in Buffers : save_file(p, d) /\ UNCHANGED NotSave
SpecSave == InitSave /\ [][NextSave]_vars

InitCache == windows \in BOOLEAN /\ SaveIdle /\ CacheInit /\ EvictIdle /\ LifeIdle
NotCache == <<windows, saveVars, evictVars, lifeVars>>
NextCache ==
    \/ ResolveDataDir /\ UNCHANGED NotCache
    \/ ClearDirect /\ UNCHANGED NotCache
    \/ ClearEbwv /\ UNCHANGED NotCache
    \/ IssueEval /\ UNCHANGED NotCache
    \/ WebviewCacheActivity /\ UNCHANGED NotCache
    \/ Relaunch /\ UNCHANGED NotCache
SpecCache == InitCache /\ [][NextCache]_vars

InitEvict == windows \in BOOLEAN /\ SaveIdle /\ CacheIdle /\ EvictInit /\ LifeIdle
NotEvict == <<windows, saveVars, cacheVars, lifeVars>>
NextEvict ==
    \/ Invoke /\ UNCHANGED NotEvict
    \/ GetRegistrations /\ UNCHANGED NotEvict
    \/ Unregister /\ UNCHANGED NotEvict
    \/ UnregisterDone /\ UNCHANGED NotEvict
    \/ CachesKeys /\ UNCHANGED NotEvict
    \/ DeleteKey /\ UNCHANGED NotEvict
    \/ DeleteDone /\ UNCHANGED NotEvict
    \/ Final /\ UNCHANGED NotEvict
    \/ ScriptThrows /\ UNCHANGED NotEvict
    \/ PageActivity /\ UNCHANGED NotEvict
    \/ NewSession /\ UNCHANGED NotEvict
SpecEvict == InitEvict /\ [][NextEvict]_vars

InitLife == windows \in BOOLEAN /\ SaveIdle /\ CacheIdle /\ EvictIdle /\ LifeInit
NotLife == <<windows, saveVars, cacheVars, evictVars>>
NextLife ==
    \/ kill_bridge /\ UNCHANGED NotLife
    \/ RunCallback /\ UNCHANGED NotLife
    \/ BridgeChanges /\ UNCHANGED NotLife
SpecLife == InitLife /\ [][NextLife]_vars


----------------------------------------------------------------------------
(* Properties                                                              *)

SaveCalled == call # NoCall
\* The destination can be opened for writing and the device has room for d.
Writable(fs, p, d) ==
    /\ OpenForWrite(fs, p) = "Ok"
    /\ Len(d) <= Free(fs) + Len(fs[p].data)

\* C1: save_file(p, d) on a valid writable destination returns success, and
\* the file at p then holds exactly d, whatever p held before (nothing, or a
\* file with shorter or longer content).
C1_SaveRoundTrips ==
    SaveCalled /\ Writable(prev, call.path, call.data)
    => /\ ret = <<"Ok">>
       /\ sfs[call.path].kind = "file"
       /\ sfs[call.path].data = call.data

\* A shorter buffer with another first byte replaced a longer file.
C1_Witness ==
    /\ SaveCalled
    /\ prev[call.path].kind = "file"
    /\ Len(prev[call.path].data) = 2
    /\ Len(call.data) = 1
    /\ prev[call.path].data[1] # call.data[1]
    /\ ret = <<"Ok">>
    /\ sfs[call.path].data = call.data

\* C2 (as stated): save_file on an unwritable path returns an error string,
\* and afterwards there is no file at that path and the rest of the
\* filesystem is unchanged.
C2_NoFileAtPath ==
    SaveCalled /\ OpenForWrite(prev, call.path) # "Ok"
    => /\ ret[1] = "Err"
       /\ sfs[call.path].kind # "file"
       /\ \A q \in SavePaths \ {call.path} : sfs[q] = prev[q]

\* C2 (amended): save_file on a path that cannot be opened for writing
\* returns an error string and leaves the whole filesystem as it was: no
\* file is created, and a file already at the path keeps its content.
C2_UnwritableUnchanged ==
    SaveCalled /\ OpenForWrite(prev, call.path) # "Ok"
    => /\ ret[1] = "Err"
       /\ ret[2] = OpenForWrite(prev, call.path)
       /\ sfs = prev

\* A save below a directory that does not exist.
C2_Witness ==
    /\ SaveCalled
    /\ call.path = <<"gone", "a">>
    /\ call.data # <<>>
    /\ ret = <<"Err", "NotFound">>
    /\ sfs[call.path] = NoEntry
    /\ sfs[GoneDir] = NoEntry

\* C3: no step of the setup closure changes an entry of the data directory
\* that is neither one of the four cache directories nor below one.
C3_ClearTouchesOnlyCaches ==
    [][spc # "running" => \A n \in Nodes \ TargetSubtrees : tree'[n] = tree[n]]_vars

\* All four cache directories were removed; the storage beside them stands.
C3_Witness ==
    /\ spc = "running"
    /\ attempted = Targets
    /\ failed = {}
    /\ \A t \in Targets : tree[t] = "none"
    /\ tree[<<"IndexedDB">>] = "dir"
    /\ tree[<<"Local Storage">>] = "dir"
    /\ tree[<<"Service Worker">>] = "dir"
    /\ tree[<<"EBWebView", "Default", "IndexedDB">>] = "dir"

\* C4: the script reloads at most once per session: an instance that starts
\* with the flag set never reloads, whatever it unregistered or deleted; an
\* instance that starts with a registration and the flag unset unregisters
\* every registration, sets the flag and reloads once.
C4_AtMostOneReload ==
    /\ reloads <= 1
    /\ (epc = "final" /\ run0.regs # {} => regs = {} /\ c)
    /\ (outcome \in {"done", "reloaded"} /\ run0.tc
          => outcome = "done" /\ reloads = run0.reloads)
    /\ (outcome \in {"done", "reloaded"} /\ ~run0.tc /\ run0.regs # {}
          => outcome = "reloaded" /\ tc /\ reloads = run0.reloads + 1)

\* A second instance in the session unregistered a worker and did not reload.
C4_Witness ==
    /\ epc = "idle"
    /\ outcome = "done"
    /\ run0.tc
    /\ run0.regs # {}
    /\ regs = {}
    /\ reloads = 1

\* C5: the script reloads only if it unregistered or deleted something; with
\* no registration and no bucket but the tiles bucket it deletes nothing,
\* leaves the flag as it was and does not reload.
C5_ReloadOnlyAfterChange ==
    /\ (outcome = "reloaded" => run0.regs # {} \/ run0.buckets \ {Tiles} # {})
    /\ (run0.regs = {} /\ run0.buckets \subseteq {Tiles}
          => /\ epc # "idle" => regs = run0.regs /\ buckets = run0.buckets /\ ~c
             /\ outcome \in {"done", "reloaded"}
                  => outcome = "done" /\ tc = run0.tc /\ reloads = run0.reloads)

\* An instance that found only the tiles bucket has completed.
C5_Witness ==
    /\ hasSW /\ hasCaches
    /\ outcome = "done"
    /\ run0.regs = {}
    /\ run0.buckets = {Tiles}
    /\ buckets = {Tiles}
    /\ ~tc
    /\ reloads = 0

\* C6: an instance that reaches its last statement has unregistered every
\* registration and left, of the buckets it started with, the tiles bucket
\* alone; and no step ever deletes the tiles bucket.
C6_EvictsAllButTiles ==
    /\ [](epc = "final" => regs = {} /\ buckets = run0.buckets \cap {Tiles})
    /\ [][(Tiles \in buckets) => (Tiles \in buckets')]_vars

\* Two registrations and three buckets at the start, the tiles bucket at the end.
C6_Witness ==
    /\ epc = "final"
    /\ run0.regs = Scopes
    /\ run0.buckets = BucketNames
    /\ regs = {}
    /\ buckets = {Tiles}

ClearDone == spc = "eval"
SecondQuietRun == ClearDone /\ launch > 1 /\ last.quiet

C8_KillBridgeNeverFails ==
    /\ [](/\ cmdRet \in {"None", "unit"}
          /\ calls > 0 => cmdRet = "unit"
          /\ cmdKills = (IF windows THEN calls ELSE 0)
          /\ ~windows => spawned = 0 /\ lastKill = "None")
    /\ [][calls' # calls
            => /\ lpc' = lpc
               /\ ~windows => bridge' = bridge]_vars

\* Two calls on Windows; the second could not start taskkill.
C8_Witness ==
    /\ windows
    /\ lpc = "loop"
    /\ calls = 2
    /\ hookKills = 0
    /\ lastKill = "SpawnErr"
    /\ cmdRet = "unit"

\* C9: the run-loop callback has made one kill attempt once the Exit event
\* was delivered (on Windows), none before, and none on another platform;
\* the Exit event ends the run whatever the attempt's result.
C9_KillOnExitOnly ==
    /\ hookKills = (IF windows /\ lpc = "exited" THEN 1 ELSE 0)
    /\ (lpc = "exited") = (lastEvent = "Exit")

\* Exit without any kill_bridge call; the attempt failed, the run ended.
C9_Witness ==
    /\ windows
    /\ lpc = "exited"
    /\ calls = 0
    /\ hookKills = 1
    /\ lastKill = "Denied"
    /\ bridge = "running"

\* C10: the setup closure never fails; it checks all four targets when the
\* data directory resolves (none otherwise), calls remove_dir_all on exactly
\* those that exist when checked, goes on after a failed removal, issues the
\* script to the main window when there is one, and returns Ok.
C10_ClearBestEffort ==
    /\ [](/\ spc # "aborted"
          /\ failed \subseteq attempted
          /\ attempted \subseteq checked
          /\ spc = "running"
               => /\ setupRet = "Ok"
                  /\ evalIssued = mainWindow
                  /\ checked = (IF windows /\ dataDir = "Ok" THEN Targets ELSE {}))
    /\ [][\A t \in checked' \ checked :
            /\ t \in attempted' <=> tree[t] # "none"
            /\ tree[t] = "none" => UNCHANGED tree]_vars

\* The first removal failed, a later one was made and succeeded, one target
\* was absent, and the script was issued.
C10_Witness ==
    /\ spc = "running"
    /\ <<"Cache">> \in failed
    /\ <<"EBWebView", "Default", "Code Cache">> \in attempted \ failed
    /\ checked \ attempted # {}
    /\ evalIssued
    /\ setupRet = "Ok"


====
